---------------------------- MODULE Spec2Model ----------------------------
(***************************************************************************)
(* CanvasSource (js/source/canvas_source.js): a map source whose image is  *)
(* copied from an HTML canvas.  The model covers the life cycle of one     *)
(* source: constructor, load(), onAdd(), the play()/pause() closures made  *)
(* by load(), prepare() and the host/environment steps around them (the    *)
(* canvas being resized, a tile being assigned, the source being removed). *)
(* serialize() is modelled with the rebuilding of a source from its        *)
(* result.  Every action is one call made by the host; what the call did   *)
(* is kept in lastOp, threw, errs, ready, uploaded, force and first.       *)
(***************************************************************************)
EXTENDS Integers, FiniteSets

\* ---------------------------------------------------------------- bounds
\* largest canvas width/height the environment produces
MaxDim == 2
\* number of tickets the animation loop hands out
MaxTickets == 2

\* ------------------------------------------------------ value encodings
\* JavaScript NaN (a canvas dimension that is not a number)
NaN == -98
\* JavaScript undefined (this.width before load(), `let loopID;`)
Undefined == -99

\* the widths and heights the canvas reports
Dims == {NaN} \cup (-1 .. MaxDim)

VARIABLES
    canvasExists,  \* window.document.getElementById(options.canvas) finds an element
    cw, ch,        \* the element's current width and height
    canvas,        \* this.canvas: "undefined", "null" or "elem"
    width, height, \* this.width, this.height
    resize,        \* this.resize
    animate,       \* this.animate
    map,           \* this.map is set
    tile,          \* this.tile is set
    loaded,        \* this.play and this.pause are defined (load() got past line 49)
    loopID,        \* the loopID captured by the current play/pause closures
    tickets,       \* animationLoop: ids of the active tickets
    n,             \* animationLoop: next ticket id
    coordsApplied, \* setCoordinates(this.coordinates) has been called by onAdd
    texture,       \* some _prepareImage call has completed
    texW, texH,    \* canvas size at the last completed _prepareImage call
    everResized,   \* the canvas has changed size since the source was constructed
    lastOp,        \* the last call made
    threw,         \* the last call threw
    errs,          \* number of 'error' events the last call fired
    ready,         \* the last call invoked _finishLoading()
    uploaded,      \* the last call invoked _prepareImage
    force,         \* the resize argument of that _prepareImage call
    first,         \* no _prepareImage call had completed before that call
    coordinates,   \* this.coordinates
    copy           \* the source rebuilt from serialize(), once one has been

vars == <<canvasExists, cw, ch, canvas, width, height, resize, animate, map,
          tile, loaded, loopID, tickets, n, coordsApplied, texture, texW,
          texH, everResized, lastOp, threw, errs, ready, uploaded, force,
          first, coordinates, copy>>

envVars == <<canvasExists, cw, ch>>
loopVars == <<tickets, n>>
texVars == <<texture, texW, texH>>

\* -------------------------------------------------------------- options
\* options.canvas: the id of the canvas element
CanvasId == "id"

\* options.coordinates: the corner quads a source can be given
Quads == {"quadA", "quadB"}

\* the options objects the constructor is given: animate is optional
SourceOptions ==
    [canvas : {CanvasId}, coordinates : Quads]
        \cup [canvas : {CanvasId}, coordinates : Quads, animate : BOOLEAN]

\* line 41: options.hasOwnProperty('animate') ? options.animate : true
ConstructorAnimate(options) ==
    IF "animate" \in DOMAIN options THEN options.animate ELSE TRUE

\* window.document.getElementById(x): only the id finds the element; any
\* other argument (an element, undefined) is turned into a string that
\* names no element
GetElementById(x) == IF x = CanvasId /\ canvasExists THEN "elem" ELSE "null"

\* no source has been rebuilt yet
NoCopy == [made |-> FALSE, animate |-> FALSE, coordinates |-> "none",
           threw |-> FALSE]

\* ------------------------------------------------------------- helpers
\* isNaN(x)
IsNaN(x) == x = NaN \/ x = Undefined

\* a !== b on numbers (NaN differs from everything, itself included)
StrictNotEqual(a, b) == a = NaN \/ b = NaN \/ a # b

\* _hasInvalidDimensions with `x < 0` in place of `x <= 0`
HasInvalidDimensionsStrict(w, h) ==
    \E x \in {w, h} : IsNaN(x) \/ x < 0

\* _hasInvalidDimensions without the isNaN test
HasInvalidDimensionsNoNaN(w, h) ==
    \E x \in {w, h} : ~IsNaN(x) /\ x <= 0

\* _hasInvalidDimensions(): over [this.canvas.width, this.canvas.height]
HasInvalidDimensions(w, h) ==
    \E x \in {w, h} : IsNaN(x) \/ (x <= 0)

\* this.resize = true in the constructor
ConstructorResizeTrue == TRUE

\* constructor: this.resize = false
ConstructorResize == FALSE

\* what the last call did, for a call that fires nothing and uploads nothing
Quiet(op, t) ==
    /\ lastOp' = op
    /\ threw' = t
    /\ errs' = 0
    /\ ready' = FALSE
    /\ uploaded' = FALSE
    /\ force' = FALSE
    /\ first' = FALSE

\* ---------------------------------------------------------------- Init
\* new CanvasSource(id, options, ...): nothing resolved, no closures yet
InitFrom(options) ==
    /\ canvasExists \in BOOLEAN
    /\ cw \in (IF canvasExists THEN Dims ELSE {Undefined})
    /\ ch \in (IF canvasExists THEN Dims ELSE {Undefined})
    /\ canvas = "undefined"
    /\ width = Undefined
    /\ height = Undefined
    /\ resize = ConstructorResize
    /\ animate = ConstructorAnimate(options)
    /\ coordinates = options.coordinates
    /\ copy = NoCopy
    /\ map = FALSE
    /\ tile = FALSE
    /\ loaded = FALSE
    /\ loopID = Undefined
    /\ tickets = {}
    /\ n = 0
    /\ coordsApplied = FALSE
    /\ texture = FALSE
    /\ texW = Undefined
    /\ texH = Undefined
    /\ everResized = FALSE
    /\ lastOp = "new"
    /\ threw = FALSE
    /\ errs = 0
    /\ ready = FALSE
    /\ uploaded = FALSE
    /\ force = FALSE
    /\ first = FALSE

\* The life-cycle specifications fix the quad: no operation but serialize()
\* reads this.coordinates.
Init == \E options \in SourceOptions :
            options.coordinates = "quadA" /\ InitFrom(options)

\* ---------------------------------------------------------------- load
\* line 46: this.canvas || getElementById(options.canvas)
LoadCanvas ==
    IF canvas = "elem" THEN canvas
    ELSE GetElementById(CanvasId)

\* line 47: this.canvas.width on a null canvas is a TypeError
LoadThrows == LoadCanvas = "null"

\* line 49: the dimension check fails
LoadInvalid == ~LoadThrows /\ HasInvalidDimensions(cw, ch)

\* lines 51-62 are reached
LoadOK == ~LoadThrows /\ ~LoadInvalid

\* the assignments of load() to the fields it owns, except loopID
LoadEffect ==
    /\ canvas' = LoadCanvas
    /\ width' = IF LoadThrows THEN width ELSE cw
    /\ height' = IF LoadThrows THEN height ELSE ch
    /\ loaded' = (loaded \/ LoadOK)
    /\ ready' = LoadOK

\* load()
Load ==
    /\ LoadEffect
    /\ loopID' = IF LoadOK THEN Undefined ELSE loopID
    /\ lastOp' = "load"
    /\ threw' = LoadThrows
    /\ errs' = IF LoadInvalid THEN 1 ELSE 0
    /\ uploaded' = FALSE
    /\ force' = FALSE
    /\ first' = FALSE
    /\ UNCHANGED <<envVars, resize, animate, coordinates, copy, map, tile, loopVars,
                   coordsApplied, texVars, everResized>>

\* ------------------------------------------------------- animation loop
\* animationLoop.set(Infinity): registers a ticket under the next id, n
LoopSet ==
    /\ tickets' = tickets \cup {n}
    /\ n' = n + 1

\* a cancel that always removes the first ticket ever handed out
LoopCancelFirst(id) == tickets \ {0}

\* animationLoop.cancel(id): the tickets left; an unknown id cancels nothing
LoopCancel(id) == tickets \ {id}

\* ---------------------------------------------------------- play, pause
\* play(): undefined before a successful load(); this.map.style needs a map
PlayThrows == ~loaded \/ ~map

\* play()
Play ==
    /\ PlayThrows \/ n < MaxTickets
    /\ IF PlayThrows
       THEN UNCHANGED <<loopID, tickets, n>>
       ELSE /\ loopID' = n
            /\ LoopSet
    /\ Quiet("play", PlayThrows)
    /\ UNCHANGED <<envVars, canvas, width, height, resize, animate, coordinates, copy, map, tile,
                   loaded, coordsApplied, texVars, everResized>>

\* pause(): undefined before a successful load(); this.map.style needs a map
PauseThrows == ~loaded \/ ~map

\* pause()
Pause ==
    /\ tickets' = IF PauseThrows THEN tickets ELSE LoopCancel(loopID)
    /\ Quiet("pause", PauseThrows)
    /\ UNCHANGED <<envVars, canvas, width, height, resize, animate, coordinates, copy, map, tile,
                   loaded, loopID, n, coordsApplied, texVars,
                   everResized>>

\* --------------------------------------------------------------- onAdd
\* onAdd(map) with one slip, named by bug:
\*   "noGuard"     line 75 (if (this.map) return) is missing
\*   "alwaysPlay"  line 79 calls this.play() whatever this.animate is
OnAddBug(bug) ==
  IF bug # "noGuard" /\ map
  THEN /\ Quiet("onAdd", FALSE)
       /\ UNCHANGED <<envVars, canvas, width, height, resize, animate,
                      coordinates, copy, map, tile, loaded, loopID, loopVars,
                      coordsApplied, texVars, everResized>>
  ELSE
    LET playCalled == ~LoadThrows /\ (animate \/ bug = "alwaysPlay")
        playThrows == playCalled /\ ~(loaded \/ LoadOK)
        played == playCalled /\ ~playThrows
    IN  /\ played => n < MaxTickets
        /\ map' = TRUE
        /\ LoadEffect
        /\ loopID' = IF played THEN n
                     ELSE IF LoadOK THEN Undefined ELSE loopID
        /\ IF played THEN LoopSet ELSE UNCHANGED <<tickets, n>>
        /\ coordsApplied' = (coordsApplied \/ (~LoadThrows /\ ~playThrows))
        /\ lastOp' = "onAdd"
        /\ threw' = (LoadThrows \/ playThrows)
        /\ errs' = IF LoadInvalid THEN 1 ELSE 0
        /\ uploaded' = FALSE
        /\ force' = FALSE
        /\ first' = FALSE
        /\ UNCHANGED <<envVars, resize, animate, coordinates, copy, tile, texVars, everResized>>

OnAddNoGuard == OnAddBug("noGuard")
OnAddAlwaysPlays == OnAddBug("alwaysPlay")

\* onAdd(map)
OnAdd ==
    IF map
    THEN /\ Quiet("onAdd", FALSE)
         /\ UNCHANGED <<envVars, canvas, width, height, resize, animate, coordinates, copy, map,
                        tile, loaded, loopID, loopVars, coordsApplied,
                        texVars, everResized>>
    ELSE LET playCalled == ~LoadThrows /\ animate
             playThrows == playCalled /\ ~(loaded \/ LoadOK)
             played == playCalled /\ ~playThrows
         IN  /\ played => n < MaxTickets
             /\ map' = TRUE
             /\ LoadEffect
             /\ loopID' = IF played THEN n
                          ELSE IF LoadOK THEN Undefined ELSE loopID
             /\ IF played THEN LoopSet ELSE UNCHANGED <<tickets, n>>
             /\ coordsApplied' = (coordsApplied \/ (~LoadThrows /\ ~playThrows))
             /\ lastOp' = "onAdd"
             /\ threw' = (LoadThrows \/ playThrows)
             /\ errs' = IF LoadInvalid THEN 1 ELSE 0
             /\ uploaded' = FALSE
             /\ force' = FALSE
             /\ first' = FALSE
             /\ UNCHANGED <<envVars, resize, animate, coordinates, copy, tile, texVars,
                            everResized>>

\* -------------------------------------------------------------- prepare
\* prepare() with one slip, named by bug:
\*   "keepFlag"       line 111 (this.resize = false) is missing
\*   "noHeight"       lines 101-104 (the height comparison) are missing
\*   "pauseOnInvalid" the failed dimension check also cancels the ticket
PrepareBug(ok, bug) ==
    IF canvas # "elem"
    THEN /\ Quiet("prepare", TRUE)
         /\ UNCHANGED <<envVars, canvas, width, height, resize, animate, coordinates, copy, map,
                        tile, loaded, loopID, loopVars, coordsApplied,
                        texVars, everResized>>
    ELSE LET changed == \/ StrictNotEqual(cw, width)
                        \/ (bug # "noHeight" /\ StrictNotEqual(ch, height))
             flag == resize \/ changed
             invalid == HasInvalidDimensions(cw, ch)
             calls == ~invalid /\ tile /\ map
             mapThrows == ~invalid /\ tile /\ ~map
         IN  /\ width' = cw
             /\ height' = ch
             /\ resize' = IF calls /\ ok /\ bug # "keepFlag" THEN FALSE ELSE flag
             /\ lastOp' = "prepare"
             /\ errs' = IF invalid THEN 1 ELSE 0
             /\ ready' = FALSE
             /\ uploaded' = calls
             /\ force' = (calls /\ flag)
             /\ first' = (calls /\ ~texture)
             /\ threw' = (mapThrows \/ (calls /\ ~ok))
             /\ texture' = (texture \/ (calls /\ ok))
             /\ texW' = IF calls /\ ok THEN cw ELSE texW
             /\ texH' = IF calls /\ ok THEN ch ELSE texH
             /\ tickets' = IF invalid /\ bug = "pauseOnInvalid"
                           THEN LoopCancel(loopID) ELSE tickets
             /\ UNCHANGED <<envVars, canvas, animate, coordinates, copy, map, tile, loaded, loopID,
                            n, coordsApplied, everResized>>

\* prepare() that never clears this.resize
PrepareKeepsFlag(ok) == PrepareBug(ok, "keepFlag")

\* prepare() that compares the width only
PrepareNoHeight(ok) == PrepareBug(ok, "noHeight")

\* prepare() that pauses the animation when the dimension check fails
PreparePausesOnInvalid(ok) == PrepareBug(ok, "pauseOnInvalid")

\* prepare(), where ok says whether the _prepareImage call completes
PrepareWith(ok) ==
    IF canvas # "elem"
    THEN /\ Quiet("prepare", TRUE)
         /\ UNCHANGED <<envVars, canvas, width, height, resize, animate, coordinates, copy, map,
                        tile, loaded, loopID, loopVars, coordsApplied,
                        texVars, everResized>>
    ELSE LET changed == StrictNotEqual(cw, width) \/ StrictNotEqual(ch, height)
             flag == resize \/ changed
             invalid == HasInvalidDimensions(cw, ch)
             calls == ~invalid /\ tile /\ map
             mapThrows == ~invalid /\ tile /\ ~map
         IN  /\ width' = cw
             /\ height' = ch
             /\ resize' = IF calls /\ ok THEN FALSE ELSE flag
             /\ lastOp' = "prepare"
             /\ errs' = IF invalid THEN 1 ELSE 0
             /\ ready' = FALSE
             /\ uploaded' = calls
             /\ force' = (calls /\ flag)
             /\ first' = (calls /\ ~texture)
             /\ threw' = (mapThrows \/ (calls /\ ~ok))
             /\ texture' = (texture \/ (calls /\ ok))
             /\ texW' = IF calls /\ ok THEN cw ELSE texW
             /\ texH' = IF calls /\ ok THEN ch ELSE texH
             /\ UNCHANGED <<envVars, canvas, animate, coordinates, copy, map, tile, loaded, loopID,
                            loopVars, coordsApplied,
                            everResized>>

\* prepare()
Prepare == \E ok \in BOOLEAN : PrepareWith(ok)

\* --------------------------------------------------- host / environment
\* the application assigns canvas.width or canvas.height another value
ResizeCanvas ==
    /\ canvasExists
    /\ \E x \in Dims :
        \/ x # cw /\ cw' = x /\ ch' = ch
        \/ x # ch /\ ch' = x /\ cw' = cw
    /\ everResized' = TRUE
    /\ Quiet("resize", FALSE)
    /\ UNCHANGED <<canvasExists, canvas, width, height, resize, animate, coordinates, copy, map,
                   tile, loaded, loopID, loopVars, coordsApplied,
                   texVars>>

\* the host assigns the source its tile, or takes it away
SetTile ==
    /\ map
    /\ tile' = ~tile
    /\ Quiet("tile", FALSE)
    /\ UNCHANGED <<envVars, canvas, width, height, resize, animate, coordinates, copy, map,
                   loaded, loopID, loopVars, coordsApplied,
                   texVars, everResized>>

\* the host removes the source: CanvasSource defines no onRemove, so no
\* code of the source runs
Detach ==
    /\ map
    /\ Quiet("detach", FALSE)
    /\ UNCHANGED <<envVars, canvas, width, height, resize, animate, coordinates, copy, map, tile,
                   loaded, loopID, loopVars, coordsApplied, texVars,
                   everResized>>

\* ------------------------------------------------------------ serialize
\* serialize(), lines 114-120
Serialize ==
    [type |-> "canvas", canvas |-> canvas, coordinates |-> coordinates]

\* new CanvasSource(id, serialize(), ...) and load() on the new source,
\* whose this.canvas is undefined: line 46 looks options.canvas up, and
\* line 47 throws on null
RoundTrip ==
    LET options == Serialize
    IN  /\ copy' = [made |-> TRUE,
                    animate |-> ConstructorAnimate(options),
                    coordinates |-> options.coordinates,
                    threw |-> (GetElementById(options.canvas) = "null")]
        /\ Quiet("serialize", FALSE)
        /\ UNCHANGED <<envVars, canvas, width, height, resize, animate,
                       coordinates, map, tile, loaded, loopID, loopVars,
                       coordsApplied, texVars, everResized>>

Next ==
    \/ Load
    \/ OnAdd
    \/ Play
    \/ Pause
    \/ Prepare
    \/ ResizeCanvas
    \/ SetTile
    \/ Detach
    \/ RoundTrip

Spec == Init /\ [][Next]_vars

\* The animation side alone.  prepare() and the tile assignment read and
\* write none of canvas, loaded, map, loopID, tickets, n, and load(), onAdd(),
\* play(), pause() read none of width, height, resize, tile: leaving the two
\* out changes nothing the animation side can do.
NextLoop ==
    \/ Load
    \/ OnAdd
    \/ Play
    \/ Pause
    \/ ResizeCanvas
    \/ Detach

SpecLoop == Init /\ [][NextLoop]_vars

\* A source that is attached once and then only played and paused.
NextPlay ==
    \/ OnAdd
    \/ Play
    \/ Pause

SpecPlay == Init /\ [][NextPlay]_vars

\* play() and pause() called in strict alternation.  The play() that onAdd()
\* makes for an animated source (line 79) counts as the first play().
PlayAlt ==
    /\ \/ lastOp = "pause"
       \/ (lastOp = "onAdd" /\ ~animate)
    /\ Play

PauseAlt ==
    /\ \/ lastOp = "play"
       \/ (lastOp = "onAdd" /\ animate)
    /\ Pause

\* onAdd(map) by the host, once
OnAddOnce == ~map /\ OnAdd

\* A source attached (and so loaded) once, then played and paused in turn.
NextAlt ==
    \/ OnAddOnce
    \/ PlayAlt
    \/ PauseAlt

SpecAlt == Init /\ [][NextAlt]_vars

\* serialize() and the rebuilding of a source from its result, on a source
\* built from any of the options objects, loaded or not.
InitSerialize == \E options \in SourceOptions : InitFrom(options)

NextSerialize ==
    \/ Load
    \/ RoundTrip

SpecSerialize == InitSerialize /\ [][NextSerialize]_vars

\* The frame side alone.  play() and pause() write loopID, tickets and n
\* only, which load(), onAdd() and prepare() do not read.
NextFrame ==
    \/ Load
    \/ OnAdd
    \/ Prepare
    \/ ResizeCanvas
    \/ SetTile

SpecFrame == Init /\ [][NextFrame]_vars

\* load() as the host runs it, through onAdd() only: a direct load() is
\* taken before the source is attached.
LoadDetached == ~map /\ Load

\* The frame side of a source that is loaded by its host.
NextHost ==
    \/ LoadDetached
    \/ OnAdd
    \/ Prepare
    \/ ResizeCanvas
    \/ SetTile

SpecHost == Init /\ [][NextHost]_vars

\* An attached source whose canvas only ever has valid sizes, driven by
\* resizes, tile assignments and removals, and prepare() calls whose upload
\* completes.
InitValid ==
    /\ Init
    /\ canvasExists
    /\ cw \in 1 .. MaxDim
    /\ ch \in 1 .. MaxDim

ResizeValid ==
    /\ ResizeCanvas
    /\ cw' \in 1 .. MaxDim
    /\ ch' \in 1 .. MaxDim

NextValid ==
    \/ OnAdd
    \/ PrepareWith(TRUE)
    \/ ResizeValid
    \/ SetTile

SpecValid == InitValid /\ [][NextValid]_vars

TypeOK ==
    /\ canvas \in {"undefined", "null", "elem"}
    /\ width \in Dims \cup {Undefined}
    /\ height \in Dims \cup {Undefined}
    /\ loopID \in {Undefined} \cup (0 .. MaxTickets - 1)
    /\ tickets \subseteq (0 .. MaxTickets - 1)
    /\ n \in 0 .. MaxTickets
    /\ coordinates \in Quads
    /\ copy.coordinates \in Quads \cup {"none"}

\* ------------------------------------------------------------- claims
\* the canvas reports a width or height that is not a number or is <= 0
BadSize == cw = NaN \/ ch = NaN \/ cw <= 0 \/ ch <= 0

\* C1: a loaded source never has more than one active ticket in the
\* animation loop, whatever onAdd(), play() and pause() calls were made.
C1_AtMostOneTicket == loaded => Cardinality(tickets) <= 1

\* C2: when pause() has returned, the animation loop holds no active ticket
\* of the source.
C2_PauseCancelsAll == (lastOp = "pause" /\ ~threw) => tickets = {}

\* C3: when the host has removed the source, the animation loop holds no
\* active ticket of the source.
C3_DetachCancels == lastOp = "detach" => tickets = {}

\* C4: pause() on a source that is not playing does not throw (and having
\* nothing to cancel, changes nothing), in every life-cycle state.
C4_PauseIdleNoThrow == (lastOp = "pause" /\ tickets = {}) => ~threw

\* C5: a load() (called directly or by onAdd()) on a canvas whose width or
\* height is not a number or <= 0 fires exactly one error event, does not
\* call _finishLoading, uploads nothing and does not make the source loaded.
C5_InvalidLoadHalts ==
    [][(/\ lastOp' = "load" \/ (lastOp' = "onAdd" /\ ~map)
        /\ canvasExists
        /\ BadSize)
       => (/\ errs' = 1
           /\ ~ready'
           /\ ~uploaded'
           /\ loaded' = loaded
           /\ UNCHANGED texVars)]_vars

\* C5 witness: load() has just rejected a canvas of invalid size; the source
\* holds the canvas and is not loaded.
C5_Witness ==
    /\ lastOp = "load"
    /\ canvas = "elem"
    /\ BadSize
    /\ errs = 1
    /\ ~loaded

\* C6: a prepare() on a resolved canvas whose width or height is not a
\* number or <= 0 fires an error event and does not call _prepareImage;
\* _prepareImage is never called on a canvas of invalid size.
C6_InvalidPrepareNoUpload ==
    /\ (lastOp = "prepare" /\ canvas = "elem" /\ BadSize)
           => (errs = 1 /\ ~uploaded)
    /\ uploaded => ~BadSize

\* C6 witness: a source with a tile and an earlier upload has just had a
\* prepare() rejected because the canvas was resized to an invalid size.
C6_Witness ==
    /\ lastOp = "prepare"
    /\ BadSize
    /\ tile
    /\ texture
    /\ errs = 1
    /\ ~uploaded

\* C7: when the canvas does not exist, load() and onAdd() return without
\* throwing, load() reports the failure by one error event, the source stays
\* unloaded, no ticket is registered and no coordinates are applied.
C7_MissingCanvasReported ==
    (lastOp \in {"load", "onAdd"} /\ ~canvasExists)
        => (/\ ~threw
            /\ lastOp = "load" => errs = 1
            /\ ~loaded
            /\ tickets = {}
            /\ ~coordsApplied)

\* C8: onAdd() on a source with animate = true whose canvas exists but has
\* an invalid size (so that load() failed and the source is not loaded)
\* returns without throwing and registers no ticket.
C8_OnAddInvalidReturns ==
    (lastOp = "onAdd" /\ animate /\ canvasExists /\ BadSize /\ ~loaded)
        => (~threw /\ tickets = {})

\* C9: over valid canvas sizes, resizes, tile assignments and removals and
\* prepare() calls, the resize argument of an upload that follows a
\* completed upload is true if and only if the canvas size differs from its
\* size at that completed upload.
C9_FlagIffSizeDiffers ==
    [][(lastOp' = "prepare" /\ uploaded' /\ texture)
       => (force' <=> (cw # texW \/ ch # texH))]_vars

\* C10 as claimed: the first upload after onAdd() on a valid canvas whose
\* size has not changed is issued with forceReallocate = true.
C10_FirstUploadReallocates ==
    (lastOp = "prepare" /\ uploaded /\ ~threw /\ first /\ ~everResized)
        => force

\* C10 as amended: the first upload after onAdd() on a valid canvas whose
\* size has not changed is issued with forceReallocate = false.
C10_FirstUploadRefreshes ==
    (lastOp = "prepare" /\ uploaded /\ ~threw /\ first /\ ~everResized)
        => ~force

\* C10 witness: the first upload of a source has completed, on a canvas whose
\* size never changed, with forceReallocate = false.
C10_Witness ==
    /\ lastOp = "prepare"
    /\ uploaded
    /\ first
    /\ ~threw
    /\ ~everResized
    /\ ~force
    /\ map

\* C11: for an attached source with a tile, once the canvas has been resized
\* to a valid size other than the one the source last saw, the next prepare()
\* uploads with forceReallocate = true; and the prepare() that follows a
\* completed upload, the size unchanged, uploads with forceReallocate = false.
C11_ReallocateOnce ==
    [][/\ (/\ lastOp' = "prepare"
           /\ lastOp = "resize"
           /\ canvas = "elem" /\ map /\ tile
           /\ ~BadSize
           /\ (cw # width \/ ch # height))
          => (uploaded' /\ force')
       /\ (/\ lastOp' = "prepare"
           /\ lastOp = "prepare" /\ uploaded /\ ~threw)
          => (uploaded' /\ ~force')]_vars

\* C11 witness: a source that had uploaded before has just completed an
\* upload with forceReallocate = true after its canvas was resized.
C11_Witness ==
    /\ lastOp = "prepare"
    /\ uploaded
    /\ ~threw
    /\ ~first
    /\ force
    /\ everResized
    /\ tile

\* C12: a prepare() that does not complete an upload (invalid size, no tile,
\* failed upload) leaves this.width and this.height unchanged.
C12_StoredSizeOnlyOnUpload ==
    [][(lastOp' = "prepare" /\ ~(uploaded' /\ ~threw'))
       => UNCHANGED <<width, height>>]_vars

\* C14: onAdd() on a source that already has a map does nothing: the map,
\* the canvas, the loaded state, the play/pause closures and their ticket,
\* the animation loop, the stored size and the resize flag are unchanged,
\* and load() does not run again (no ready signal, no error, no throw).
C14_SecondOnAddNoOp ==
    [][(lastOp' = "onAdd" /\ map)
       => (/\ UNCHANGED <<map, canvas, loaded, loopID, tickets, n, width,
                          height, resize, coordsApplied>>
           /\ ~ready'
           /\ errs' = 0
           /\ ~threw')]_vars

\* C14 witness: onAdd() has returned on a loaded source with a valid canvas
\* without signalling ready (so it was not the first onAdd()), the canvas
\* having changed size since load() recorded it, a ticket being active.
C14_Witness ==
    /\ lastOp = "onAdd"
    /\ map
    /\ loaded
    /\ ~BadSize
    /\ ~ready
    /\ tickets # {}
    /\ (width # cw \/ height # ch)

\* C16: a prepare() while no tile is assigned does nothing: no upload, no
\* event, and this.width, this.height and this.resize unchanged.
C16_NoTileNoOp ==
    [][(lastOp' = "prepare" /\ ~tile)
       => (/\ ~uploaded'
           /\ errs' = 0
           /\ UNCHANGED <<width, height, resize>>)]_vars

\* C19: onAdd() on a source whose load() has already succeeded does not load
\* again: it does not call _finishLoading a second time and keeps the
\* play/pause closures with their stored ticket.
C19_OnAddLoadsOnlyOnce ==
    [][(lastOp' = "onAdd" /\ loaded)
       => (~ready' /\ loopID' = loopID)]_vars

C18_RecoveryWithoutReplay ==
    [][/\ (lastOp' = "prepare" /\ errs' = 1)
          => (/\ ~threw'
              /\ UNCHANGED <<map, canvas, loaded, animate, tile, loopID,
                             tickets, n>>)
       /\ (/\ lastOp' = "prepare"
           /\ canvas = "elem" /\ map /\ tile
           /\ ~BadSize)
          => uploaded']_vars

\* C18 witness: prepare() has just rejected an invalid canvas on an attached
\* source that has a tile, has uploaded before and still holds its ticket.
C18_Witness ==
    /\ lastOp = "prepare"
    /\ errs = 1
    /\ ~uploaded
    /\ map
    /\ tile
    /\ texture
    /\ tickets # {}
    /\ loopID \in tickets

\* C20: on a source loaded once, with play() and pause() called in strict
\* alternation starting with play(), exactly one ticket is active after each
\* play(), the one play() stored, and none after each pause().
C20_AlternatingTickets ==
    /\ (lastOp = "play" /\ ~threw)
          => (Cardinality(tickets) = 1 /\ loopID \in tickets)
    /\ (lastOp = "pause" /\ ~threw) => tickets = {}

\* C20 witness: the second pause() of an alternation has cancelled the
\* ticket of the second play().
C20_Witness ==
    /\ lastOp = "pause"
    /\ ~threw
    /\ n = 2
    /\ loopID = 1
    /\ tickets = {}

\* C13: a source rebuilt from the object serialize() returns has the same
\* coordinates and the same animate value as the source that was
\* serialized, animate = false included.
C13_RoundTripKeepsConfiguration ==
    copy.made
       => (copy.coordinates = coordinates /\ copy.animate = animate)

\* C15: right after the first onAdd() of a source whose canvas is found and
\* has valid dimensions, exactly one ticket is active if this.animate is
\* true and none if it is false, and setCoordinates has been called;
\* this.animate is true for options with animate: true and for options
\* without animate.
C15_FirstOnAddTickets ==
    [][/\ \A options \in SourceOptions :
             ConstructorAnimate(options)
                = (("animate" \in DOMAIN options) => options.animate)
       /\ (/\ lastOp' = "onAdd"
           /\ ~map
           /\ canvasExists
           /\ ~BadSize)
          => (/\ ~threw'
              /\ Cardinality(tickets') = (IF animate THEN 1 ELSE 0)
              /\ (animate => loopID' \in tickets')
              /\ coordsApplied')]_vars

\* C15 witness: the first onAdd() of a source that does not animate has
\* returned on a valid canvas: ready, coordinates applied, no ticket.
C15_Witness ==
    /\ lastOp = "onAdd"
    /\ ready
    /\ ~threw
    /\ ~animate
    /\ coordsApplied
    /\ tickets = {}
    /\ n = 0
=============================================================================
